---- MODULE Spec2Model ----
(***************************************************************************)
(* Model of delite: the overexposure adjustment of a 16-bit pixel array    *)
(* (AdjustPixelData, src/src/main.c) and the 8-bit grayscale preview       *)
(* bitmap built from it (GeneratePreviewBitmapFrom16Bit, src/src/main.c,   *)
(* and the bitmap API of src/unnamed/part_001, the revision of bitmap.c    *)
(* whose signatures match the header and that implements the functions).   *)
(*                                                                         *)
(* C arrays are functions over 0..n-1.  Unsigned integers keep their       *)
(* width.  Floating point is IEEE-754 binary32 evaluated in binary32       *)
(* (FLT_EVAL_METHOD 0), modelled on integers that stay below 2^31.         *)
(***************************************************************************)
EXTENDS Integers, Sequences, FiniteSets, TLC

VARIABLES
    pc,                 \* position of the running function
    data,               \* uint16_t *data: the 16-bit pixel array
    size,               \* uint32_t size: number of samples
    pixel_count,        \* uint32_t pixel_count
    adjustment_level,   \* uint8_t adjustment_level
    i,                  \* unsigned i of AdjustPixelData
    max_index,          \* uint16_t max_index of AdjustPixelData
    adjusted_flag,      \* bool *adjusted_flag (calloc'ed)
    status,             \* int status of the running function
    orig,               \* history: the buffer as it was passed in
    selected,           \* history: the indices scaled so far, in order
    data_null,          \* whether the data pointer passed in is NULL
    bmp_arg_null,       \* whether the struct Bitmap ** passed in is NULL
    bmp,                \* the struct Bitmap behind *bmp (see NullBitmap)
    scaled_data,        \* union Raw_Pixel_Data *scaled_data (the u8 members)
    scaled_null,        \* whether scaled_data is NULL
    image_size,         \* unsigned image_size of GeneratePreviewBitmapFrom16Bit
    orig_size,          \* history: the sample count as it was passed in
    last_call,          \* history: the last bitmap API call and the bitmap before it
    calls,              \* history: number of bitmap API calls made
    dimensioned,        \* history: a BitmapSetWidthHeight call has succeeded
    input_file,         \* the file at input_file_path: whether fopen succeeds, its bytes
    raw_data_size,      \* uint32_t raw_data_size of RunAdjustment (bytes)
    raw_data,           \* uint16_t *raw_data: "null", "heap" or "freed"
    opened,             \* per stream: whether its fopen returned a stream
    closes,             \* per stream: number of fclose calls made on it
    out,                \* FILE *out: "null" or the stream it points to
    altered_file,       \* the bytes written to ALTERED_FILE_PATH
    preview_file,       \* the bytes written to the preview file
    stages,             \* history: the stages run, with the status of each
    argc,               \* int argc of main
    argv,               \* char **argv and the slot that follows its NULL
    arg_iterator,       \* char **arg_iterator, as an index into argv
    input_file_path,    \* char input_file_path[256]
    preview_file_path,  \* char preview_file_path[256]
    main_status,        \* int status of main
    invoked,            \* history: the arguments RunAdjustment was called with
    cmdline,            \* history: argv as main received it
    touched             \* history: the argv slots read or written

adjustVars == <<pixel_count, adjustment_level, i, max_index, adjusted_flag,
                selected>>
previewVars == <<data_null, bmp_arg_null, bmp, scaled_data, scaled_null,
                 image_size>>
apiVars == <<orig_size, last_call, calls, dimensioned>>
runVars == <<input_file, raw_data_size, raw_data, opened, closes, out,
             altered_file, preview_file, stages>>
mainVars == <<argc, argv, arg_iterator, input_file_path, preview_file_path,
              main_status, invoked, cmdline, touched>>

vars == <<pc, data, size, status, orig, adjustVars, previewVars, apiVars,
          runVars, mainVars>>

----------------------------------------------------------------------------
(* Bounds of the model and program constants *)

MaxSize == 3
MaxCount == 4
MaxLongCount == 2
MaxRunCount == 2
MaxSamples == 17
MaxSeed == 1
MaxCalls == 4
MaxWidth == 8
MaxHeight == 2
MaxPixels == 16
MaxArgs == 4

EXIT_SUCCESS == 0
EXIT_FAILURE == 1

U16 == 2^16

\* UINT32_MAX and every unsigned value of 2^31 and more, held as the largest
\* integer of the model: main only compares such a value with 0 and with 100
UINT32_MAX_Saturated == 2147483647

\* sample values the buffers are drawn from: zero, ties, small and full scale
Samples == {0, 1, 500, 65535}
\* adjustment levels (percentages) the runs are drawn from
Levels == {0, 9, 50, 99, 100}

----------------------------------------------------------------------------
(* binary32 arithmetic of  data[max_index] *= (1 - ((float) level) / 100)  *)

\* q + r/d rounded to the nearest integer, ties to even (0 <= r < d)
RoundHalfEven(q, r, d) ==
    IF 2 * r > d \/ (2 * r = d /\ q % 2 = 1) THEN q + 1 ELSE q

\* ((float) level) / 100 : the quotient level/100 is doubled until its
\* integer part fills the 24-bit significand, then rounded to nearest even.
\* The result is m / 2^k.
RECURSIVE FloatDiv100(_, _, _)
FloatDiv100(q, r, k) ==
    IF q < 2^23 \/ k < 24
    THEN FloatDiv100(2 * q + (IF 2 * r >= 100 THEN 1 ELSE 0), (2 * r) % 100, k + 1)
    ELSE [m |-> RoundHalfEven(q, r, 100), k |-> k]

LevelFraction(level) ==
    IF level = 0 THEN [m |-> 0, k |-> 24]
    ELSE FloatDiv100(level \div 100, level % 100, 0)

\* the factor with the sign slipped: 1 + ((float) level) / 100
ScaleFactorWrongSign(level) ==
    LET f == LevelFraction(level)
        d == 2^(f.k - 24)
    IN  2^24 + RoundHalfEven(f.m \div d, f.m % d, d)

\* 1 - ((float) level) / 100 in binary32, for level in 0..100: the difference
\* lies in [0, 1], where binary32 values are multiples of 2^-24 (exactly so at
\* or below 1/2), so it is M / 2^24 with M rounded to nearest even.
ScaleFactor(level) ==
    LET f == LevelFraction(level)
        num == 2^(f.k) - f.m
        d == 2^(f.k - 24)
    IN  RoundHalfEven(num \div d, num % d, d)

RECURSIVE BitLength(_)
BitLength(n) == IF n = 0 THEN 0 ELSE 1 + BitLength(n \div 2)

\* (float) v * (M / 2^24) rounded to binary32, then truncated toward zero by
\* the conversion back to uint16_t.  v * M is split in two 12-bit halves of M;
\* I is the integer part of the exact product and R / 2^24 its fraction; the
\* binary32 rounding reaches I + 1 when the fraction is within half an ulp of it.
FloatMulTrunc(v, M) ==
    LET A == v * (M \div 4096)
        B == v * (M % 4096)
        T == (A % 4096) * 4096 + B
        I == A \div 4096 + T \div 2^24
        R == T % 2^24
    IN  IF I = 0 THEN 0
        ELSE IF R >= 2^24 - 2^(BitLength(I) - 1) THEN I + 1 ELSE I

\* data[max_index] *= (1 - ((float) adjustment_level) / 100);
ScaleSample(v, level) == FloatMulTrunc(v, ScaleFactor(level)) % U16

----------------------------------------------------------------------------
(* struct Bitmap and the bitmap API (bitmap.h, bitmap.c) *)

\* sizeof the packed structs
SizeofBitmapHeader == 14
SizeofBitmapInfoHeader == 40
SizeofColorEntry == 4
\* the signature of the earlier header revision, 0x424D
BITMAP_MAGIC_SWAPPED == 16973
\* #define BITMAP_MAGIC 0x4D42
BITMAP_MAGIC == 19778
\* the 256U of BitmapInit8BitGrayscale
GrayLevels == 256

NoBytes == [j \in {} |-> 0]
NoColors == [j \in {} |-> [red |-> 0, green |-> 0, blue |-> 0, reserved |-> 0]]

\* a struct Bitmap * that is NULL (allocated = FALSE); pixel_ptr tells whether
\* the pixel_data pointer is "uninit", "null" or points to the "heap"
NullBitmap ==
    [allocated |-> FALSE,
     header |-> [signature |-> 0, file_size |-> 0, reserved |-> 0,
                 pixel_data_offset |-> 0],
     info_header |-> [header_size |-> 0, width |-> 0, height |-> 0,
                      planes_count |-> 0, bit_depth |-> 0, compression |-> 0,
                      image_size |-> 0, x_resolution |-> 0, y_resolution |-> 0,
                      colors_used |-> 0, important_colors |-> 0],
     color_table |-> NoColors,
     pixel_ptr |-> "null",
     pixel_data |-> NoBytes]

\* BitmapInit8BitGrayscale(bitmap): arg_null is bitmap == NULL, bitmap_ok and
\* table_ok are the outcomes of the two malloc calls.  *bitmap is written
\* whatever the NULL check found and (*bitmap)->color_table before the
\* allocation is checked: both NULL dereferences end the process ("crash").
\* When only the color table is missing the struct stays unpopulated.
BitmapInit8BitGrayscale(arg_null, bitmap_ok, table_ok) ==
    IF arg_null \/ ~bitmap_ok
    THEN [outcome |-> "crash", status |-> EXIT_FAILURE, bmp |-> NullBitmap]
    ELSE IF ~table_ok
    THEN [outcome |-> "return", status |-> EXIT_FAILURE,
          bmp |-> [NullBitmap EXCEPT !.allocated = TRUE, !.pixel_ptr = "uninit"]]
    ELSE [outcome |-> "return", status |-> EXIT_SUCCESS,
          bmp |-> [allocated |-> TRUE,
                   header |-> [signature |-> BITMAP_MAGIC,
                               file_size |-> 0,
                               reserved |-> 0,
                               pixel_data_offset |->
                                   SizeofBitmapHeader + SizeofBitmapInfoHeader
                                   + GrayLevels * SizeofColorEntry],
                   info_header |-> [header_size |-> SizeofBitmapInfoHeader,
                                    width |-> 0, height |-> 0,
                                    planes_count |-> 1,
                                    bit_depth |-> 8,
                                    compression |-> 0,
                                    image_size |-> 0,
                                    x_resolution |-> 0, y_resolution |-> 0,
                                    colors_used |-> GrayLevels,
                                    important_colors |-> 0],
                   color_table |-> [c \in 0..(GrayLevels - 1) |->
                                      [red |-> c, green |-> c, blue |-> c,
                                       reserved |-> 0]],
                   pixel_ptr |-> "uninit",
                   pixel_data |-> NoBytes]]

\* the width test negated
WidthRejectedInverted(width) == width % 4 = 0

\* if (width % 4 != 0)
WidthRejected(width) == width % 4 # 0

\* the file size without the offset of the pixel data
FileSizeWithoutOffset(b, width, height) == width * height

\* width * height + bitmap->header.pixel_data_offset
FileSize(b, width, height) == width * height + b.header.pixel_data_offset

\* BitmapSetWidthHeight(bitmap, width, height), width and height being uint16_t.
\* width * height is computed in int; the model keeps it below 2^31.
BitmapSetWidthHeight(b, width, height) ==
    IF ~b.allocated
    THEN [status |-> EXIT_FAILURE, bmp |-> b]
    ELSE IF WidthRejected(width)
    THEN [status |-> EXIT_FAILURE, bmp |-> b]
    ELSE [status |-> EXIT_SUCCESS,
          bmp |-> [b EXCEPT !.info_header.image_size = width * height,
                            !.info_header.width = width,
                            !.info_header.height = height,
                            !.header.file_size = FileSize(b, width, height)]]

\* BitmapFillPixelData(bitmap, data): d_null is data == NULL, d the u8 members
\* of data, alloc_ok the outcome of malloc(image_size)
BitmapFillPixelData(b, d_null, d, alloc_ok) ==
    IF ~b.allocated \/ d_null
    THEN [status |-> EXIT_FAILURE, bmp |-> b]
    ELSE IF ~alloc_ok
    THEN [status |-> EXIT_FAILURE,
          bmp |-> [b EXCEPT !.pixel_ptr = "null", !.pixel_data = NoBytes]]
    ELSE IF b.info_header.bit_depth = 8
    THEN [status |-> EXIT_SUCCESS,
          bmp |-> [b EXCEPT !.pixel_ptr = "heap",
                            !.pixel_data =
                                [j \in 0..(b.info_header.image_size - 1) |-> d[j]]]]
    ELSE [status |-> IF b.info_header.image_size = 0
                     THEN EXIT_SUCCESS ELSE EXIT_FAILURE,
          bmp |-> [b EXCEPT !.pixel_ptr = "heap",
                            !.pixel_data =
                                [j \in 0..(b.info_header.image_size - 1) |-> -1]]]

\* a file nothing was written to
NoFile == [written |-> FALSE, bytes |-> NoBytes]

\* GET_BITMAP_SIZE(bmp)
GET_BITMAP_SIZE(b) ==
    SizeofBitmapHeader + b.info_header.header_size
    + b.info_header.colors_used * SizeofColorEntry + b.info_header.image_size

\* the members of the packed struct Bitmap_Header: offset, size, value
HeaderFields(h) ==
    {[off |-> 0, len |-> 2, val |-> h.signature],
     [off |-> 2, len |-> 4, val |-> h.file_size],
     [off |-> 6, len |-> 4, val |-> h.reserved],
     [off |-> 10, len |-> 4, val |-> h.pixel_data_offset]}

\* the members of the packed struct Bitmap_Info_Header: offset, size, value
InfoHeaderFields(ih) ==
    {[off |-> 0, len |-> 4, val |-> ih.header_size],
     [off |-> 4, len |-> 4, val |-> ih.width],
     [off |-> 8, len |-> 4, val |-> ih.height],
     [off |-> 12, len |-> 2, val |-> ih.planes_count],
     [off |-> 14, len |-> 2, val |-> ih.bit_depth],
     [off |-> 16, len |-> 4, val |-> ih.compression],
     [off |-> 20, len |-> 4, val |-> ih.image_size],
     [off |-> 24, len |-> 4, val |-> ih.x_resolution],
     [off |-> 28, len |-> 4, val |-> ih.y_resolution],
     [off |-> 32, len |-> 4, val |-> ih.colors_used],
     [off |-> 36, len |-> 4, val |-> ih.important_colors]}

\* byte p of the object representation on a big-endian machine
StructByteBigEndian(fields, p) ==
    IF \E f \in fields : f.off <= p /\ p < f.off + f.len
    THEN LET f == CHOOSE g \in fields : g.off <= p /\ p < g.off + g.len
         IN  (f.val \div 2^(8 * (f.len - 1 - (p - f.off)))) % 256
    ELSE -1

\* byte p of the object representation of a packed struct on a little-endian
\* machine; a byte past the last member is indeterminate (-1)
StructByte(fields, p) ==
    IF \E f \in fields : f.off <= p /\ p < f.off + f.len
    THEN LET f == CHOOSE g \in fields : g.off <= p /\ p < g.off + g.len
         IN  (f.val \div 2^(8 * (p - f.off))) % 256
    ELSE -1

\* byte p of the array of struct Bitmap_ColorEntry {red, green, blue, reserved}
ColorTableByte(table, p) ==
    LET e == p \div SizeofColorEntry
    IN  IF e \notin DOMAIN table THEN -1
        ELSE CASE p % SizeofColorEntry = 0 -> table[e].red
               [] p % SizeofColorEntry = 1 -> table[e].green
               [] p % SizeofColorEntry = 2 -> table[e].blue
               [] OTHER -> table[e].reserved

\* mem_to_write of WriteBmpToFile after its four memcpy calls: a later copy
\* overwrites an earlier one, a byte no copy wrote or that was read past the
\* end of its source is indeterminate (-1)
MemToWrite(b) ==
    LET info_at == SizeofBitmapHeader
        table_at == SizeofBitmapHeader + b.info_header.header_size
        table_len == b.info_header.colors_used * SizeofColorEntry
        pixels_at == b.header.pixel_data_offset
        pixels_len == b.info_header.image_size
    IN  [p \in 0..(GET_BITMAP_SIZE(b) - 1) |->
            IF pixels_at <= p /\ p < pixels_at + pixels_len
            THEN IF (p - pixels_at) \in DOMAIN b.pixel_data
                 THEN b.pixel_data[p - pixels_at] ELSE -1
            ELSE IF table_at <= p /\ p < table_at + table_len
            THEN ColorTableByte(b.color_table, p - table_at)
            ELSE IF info_at <= p /\ p < table_at
            THEN StructByte(InfoHeaderFields(b.info_header), p - info_at)
            ELSE IF p < SizeofBitmapHeader
            THEN StructByte(HeaderFields(b.header), p)
            ELSE -1]

\* the first count bytes of a buffer
Prefix(bytes, count) == [p \in 0..(count - 1) |-> bytes[p]]

\* WriteBytesToFile(out, data, count): out_null is out == NULL, d_null is
\* data == NULL, written the number of bytes fwrite reports
WriteBytesToFile(out_null, d_null, bytes, count, written) ==
    IF out_null \/ d_null
    THEN [status |-> EXIT_FAILURE, file |-> NoFile]
    ELSE [status |-> IF written = count THEN EXIT_SUCCESS ELSE EXIT_FAILURE,
          file |-> [written |-> TRUE, bytes |-> Prefix(bytes, written)]]

\* WriteBmpToFile(out, bmp): alloc_ok is the outcome of malloc; copying
\* image_size > 0 bytes from a pixel_data pointer that is NULL ends the
\* process, from one that was never set it may do so (survives tells)
WriteBmpToFile(out_null, b, alloc_ok, survives, written) ==
    IF ~b.allocated
    THEN [outcome |-> "return", status |-> EXIT_FAILURE, file |-> NoFile]
    ELSE IF ~alloc_ok
    THEN [outcome |-> "return", status |-> EXIT_FAILURE, file |-> NoFile]
    ELSE IF b.info_header.image_size > 0
            /\ (b.pixel_ptr = "null" \/ (b.pixel_ptr = "uninit" /\ ~survives))
    THEN [outcome |-> "crash", status |-> EXIT_FAILURE, file |-> NoFile]
    ELSE LET r == WriteBytesToFile(out_null, FALSE, MemToWrite(b),
                                   GET_BITMAP_SIZE(b), written)
         IN  [outcome |-> "return", status |-> r.status, file |-> r.file]

NoCall == [op |-> "none", width |-> 0, height |-> 0, before |-> NullBitmap]

----------------------------------------------------------------------------
(* The state of RunAdjustment and of main before they are entered *)

Streams == {"in", "altered", "preview"}

RunIdle ==
    /\ input_file = [openable |-> FALSE, bytes |-> NoBytes]
    /\ raw_data_size = 0
    /\ raw_data = "null"
    /\ opened = [s \in Streams |-> FALSE]
    /\ closes = [s \in Streams |-> 0]
    /\ out = "null"
    /\ altered_file = NoFile
    /\ preview_file = NoFile
    /\ stages = <<>>

\* char preview_file_path[256] = "out.bmp"
DefaultPreviewPath == <<"o", "u", "t", ".", "b", "m", "p">>

MainIdle ==
    /\ argc = 0
    /\ argv = <<>>
    /\ arg_iterator = 0
    /\ input_file_path = <<>>
    /\ preview_file_path = DefaultPreviewPath
    /\ main_status = EXIT_SUCCESS
    /\ invoked = <<>>
    /\ cmdline = <<>>
    /\ touched = {}

----------------------------------------------------------------------------
(* AdjustPixelData *)

\* the body of the inner for loop: strict > against current_max, skipping
\* flagged indices; max_index is a uint16_t
ScanStep(d, flag, j, acc) ==
    IF d[j] > acc.current_max /\ ~flag[j]
    THEN [current_max |-> d[j], max_index |-> j % U16]
    ELSE acc

\* for (j = lo; j < hi; j++) started with the accumulators acc: the steps
\* are applied in index order, the range being halved so that the evaluation
\* depth stays logarithmic.  Once current_max is 65535 no uint16_t sample
\* exceeds it and the rest of the loop changes nothing.
RECURSIVE ScanRange(_, _, _, _, _)
ScanRange(d, flag, lo, hi, acc) ==
    IF lo >= hi THEN acc
    ELSE IF hi - lo = 1 THEN ScanStep(d, flag, lo, acc)
    ELSE LET mid == (lo + hi) \div 2
             left == ScanRange(d, flag, lo, mid, acc)
         IN  IF left.current_max = U16 - 1 THEN left
             ELSE ScanRange(d, flag, mid, hi, left)

\* current_max = 0; for (j = 0; j < size; j++) ...: max_index keeps its
\* value when no unflagged sample exceeds 0
Scan(d, flag, n, midx) ==
    ScanRange(d, flag, 0, n, [current_max |-> 0, max_index |-> midx]).max_index

\* calloc(size, sizeof(bool)) and the argument check
AdjustEnter ==
    /\ pc = "adjust_enter"
    /\ \E alloc_ok \in BOOLEAN :
         IF data_null \/ ~alloc_ok \/ size = 0
         THEN /\ status' = EXIT_FAILURE
              /\ pc' = "adjust_done"
              /\ UNCHANGED adjusted_flag
         ELSE /\ adjusted_flag' = [j \in 0..(size - 1) |-> FALSE]
              /\ pc' = "adjust_loop"
              /\ UNCHANGED status
    /\ UNCHANGED <<data, size, pixel_count, adjustment_level, i, max_index,
                   orig, selected, previewVars, apiVars,
                   runVars, mainVars>>

\* the loop condition off by one: i <= pixel_count
LoopContinuesInclusive(ii, count) == ii <= count

\* the loop condition of  for (i = 0; i < pixel_count; i++)
LoopContinues(ii, count) == ii < count

\* the body of the outer loop: scan, scale data[max_index], flag max_index
AdjustStep(d, flag, n, level, midx) ==
    LET mi == Scan(d, flag, n, midx)
    IN  [data |-> [d EXCEPT ![mi] = ScaleSample(d[mi], level)],
         adjusted_flag |-> [flag EXCEPT ![mi] = TRUE],
         max_index |-> mi]

\* one iteration of the outer loop
AdjustIteration ==
    /\ pc = "adjust_loop"
    /\ LoopContinues(i, pixel_count)
    /\ LET s == AdjustStep(data, adjusted_flag, size, adjustment_level, max_index)
       IN  /\ max_index' = s.max_index
           /\ data' = s.data
           /\ adjusted_flag' = s.adjusted_flag
           /\ selected' = Append(selected, s.max_index)
    /\ i' = i + 1
    /\ UNCHANGED <<pc, size, pixel_count, adjustment_level, status, orig,
                   previewVars, apiVars,
                   runVars, mainVars>>

\* loop exit, free(adjusted_flag), return status
AdjustReturn ==
    /\ pc = "adjust_loop"
    /\ ~LoopContinues(i, pixel_count)
    /\ pc' = "adjust_done"
    /\ UNCHANGED <<data, size, status, orig, adjustVars, previewVars, apiVars,
                   runVars, mainVars>>

InitAdjust ==
    /\ pc = "adjust_enter"
    /\ size \in 0..MaxSize
    /\ data \in [0..(size - 1) -> Samples]
    /\ orig = data
    /\ pixel_count \in 0..MaxCount
    /\ adjustment_level \in Levels
    /\ i = 0
    /\ max_index = 0
    /\ adjusted_flag = [j \in {} |-> FALSE]
    /\ status = EXIT_SUCCESS
    /\ selected = <<>>
    /\ data_null = FALSE
    /\ bmp_arg_null = FALSE
    /\ bmp = NullBitmap
    /\ scaled_data = NoBytes
    /\ scaled_null = TRUE
    /\ image_size = 0
    /\ orig_size = size
    /\ last_call = NoCall
    /\ calls = 0
    /\ dimensioned = FALSE
    /\ RunIdle
    /\ MainIdle

NextAdjust == AdjustEnter \/ AdjustIteration \/ AdjustReturn

SpecAdjust == InitAdjust /\ [][NextAdjust]_vars

\* the same inputs, and buffers longer than 2^16 samples (the input
\* format allows up to 2^31 - 1): every sample is 0 except the high ones at
\* the listed indices
LongSize == U16 + 2
HighIndices == {{U16 + 1}, {1, U16 + 1}}
LongLevels == {50, 100}

InitAdjustLong ==
    \/ InitAdjust
    \/ /\ pc = "adjust_enter"
       /\ size = LongSize
       /\ \E high \in HighIndices :
            data = [j \in 0..(size - 1) |-> IF j \in high THEN 500 ELSE 0]
       /\ orig = data
       /\ pixel_count \in 1..MaxLongCount
       /\ adjustment_level \in LongLevels
       /\ i = 0
       /\ max_index = 0
       /\ adjusted_flag = [j \in {} |-> FALSE]
       /\ status = EXIT_SUCCESS
       /\ selected = <<>>
       /\ data_null = FALSE
       /\ bmp_arg_null = FALSE
       /\ bmp = NullBitmap
       /\ scaled_data = NoBytes
       /\ scaled_null = TRUE
       /\ image_size = 0
       /\ orig_size = size
       /\ last_call = NoCall
       /\ calls = 0
       /\ dimensioned = FALSE
       /\ RunIdle
       /\ MainIdle

\* the outer loop  for (i = 0; i < k; i++)  run to its exit from iteration
\* ii: the buffer, max_index and the indices scaled, in order
RECURSIVE AdjustLoop(_, _, _, _, _, _, _)
AdjustLoop(d, flag, n, k, level, ii, midx) ==
    IF LoopContinues(ii, k)
    THEN LET s == AdjustStep(d, flag, n, level, midx)
             rest == AdjustLoop(s.data, s.adjusted_flag, n, k, level, ii + 1,
                                s.max_index)
         IN  [data |-> rest.data, max_index |-> rest.max_index,
              selected |-> <<s.max_index>> \o rest.selected]
    ELSE [data |-> d, max_index |-> midx, selected |-> <<>>]

\* one call of AdjustPixelData from entry to return; adjusted_flag is
\* allocated and freed inside the call
AdjustPixelData ==
    /\ pc = "adjust_enter"
    /\ \E alloc_ok \in BOOLEAN :
         IF data_null \/ ~alloc_ok \/ size = 0
         THEN /\ status' = EXIT_FAILURE
              /\ UNCHANGED <<data, i, max_index, selected>>
         ELSE LET r == AdjustLoop(data, [j \in 0..(size - 1) |-> FALSE], size,
                                 pixel_count, adjustment_level, 0, max_index)
              IN  /\ data' = r.data
                  /\ max_index' = r.max_index
                  /\ selected' = r.selected
                  /\ i' = pixel_count
                  /\ UNCHANGED status
    /\ pc' = "adjust_done"
    /\ UNCHANGED <<size, pixel_count, adjustment_level, adjusted_flag, orig,
                   previewVars, apiVars,
                   runVars, mainVars>>

NextAdjustLong == AdjustPixelData

SpecAdjustLong == InitAdjustLong /\ [][NextAdjustLong]_vars


----------------------------------------------------------------------------
(* GeneratePreviewBitmapFrom16Bit *)

\* (unsigned) sqrt(size): the double square root truncated, which is the
\* integer square root for every uint32_t; found by bisection between lo and
\* hi with lo^2 <= n < hi^2 (46341^2 exceeds every n the model can hold)
RECURSIVE SqrtBetween(_, _, _)
SqrtBetween(n, lo, hi) ==
    IF hi - lo <= 1 THEN lo
    ELSE LET mid == (lo + hi) \div 2
         IN  IF mid * mid <= n THEN SqrtBetween(n, mid, hi)
                               ELSE SqrtBetween(n, lo, mid)

Sqrt(n) == SqrtBetween(n, 0, 46341)

\* the mask left out
RoundingOmitted(x) == x

\* image_size & ~0x03
RoundDownTo4(x) == x - (x % 4)

\* keeping the low byte instead of the high byte
DownscaleLowByte(v) == v % 256

\* data[i] / 256U stored in the u8 member
Downscale8(v) == (v \div 256) % 256

\* conversion of an unsigned argument to a uint16_t parameter
ToU16(x) == x % U16

\* scaled_data = malloc(size * sizeof(union Raw_Pixel_Data)) and the argument
\* check; the elements of a fresh allocation are indeterminate (-1: not written)
GenEnter ==
    /\ pc = "gen_enter"
    /\ \E alloc_ok \in BOOLEAN :
         /\ scaled_null' = ~alloc_ok
         /\ scaled_data' = IF alloc_ok THEN [j \in 0..(size - 1) |-> -1]
                                       ELSE NoBytes
         /\ status' = IF data_null \/ ~alloc_ok \/ size = 0 \/ bmp_arg_null
                       THEN EXIT_FAILURE ELSE EXIT_SUCCESS
    /\ pc' = "gen_init"
    /\ UNCHANGED <<data, size, orig, adjustVars, data_null, bmp_arg_null, bmp,
                   image_size, apiVars,
                   runVars, mainVars>>

\* status = BitmapInit8BitGrayscale(bmp): the status of the argument check is
\* overwritten
GenInit ==
    /\ pc = "gen_init"
    /\ \E bitmap_ok, table_ok \in BOOLEAN :
         LET r == BitmapInit8BitGrayscale(bmp_arg_null, bitmap_ok, table_ok)
         IN  /\ bmp' = r.bmp
             /\ IF r.outcome = "crash"
                THEN pc' = "crash" /\ UNCHANGED status
                ELSE /\ status' = r.status
                     /\ pc' = IF r.status = EXIT_SUCCESS THEN "gen_scale"
                                                         ELSE "gen_done"
    /\ UNCHANGED <<data, size, orig, adjustVars, data_null, bmp_arg_null,
                   scaled_data, scaled_null, image_size, apiVars,
                   runVars, mainVars>>

\* image_size = sqrt(size) & ~0x03; size = image_size * image_size; the
\* downscale loop.  With size > 0 the loop dereferences data and scaled_data:
\* a NULL one ends the process.
GenScale ==
    /\ pc = "gen_scale"
    /\ LET side == RoundDownTo4(Sqrt(size))
           n == side * side
       IN  /\ image_size' = side
           /\ size' = n
           /\ IF n > 0 /\ (data_null \/ scaled_null)
              THEN pc' = "crash" /\ UNCHANGED scaled_data
              ELSE /\ scaled_data' =
                        [j \in DOMAIN scaled_data |->
                            IF j < n THEN Downscale8(data[j]) ELSE scaled_data[j]]
                   /\ pc' = "gen_setwh"
    /\ UNCHANGED <<data, status, orig, adjustVars, data_null, bmp_arg_null, bmp,
                   scaled_null, apiVars,
                   runVars, mainVars>>

\* status = BitmapSetWidthHeight(*bmp, image_size, image_size)
GenSetWidthHeight ==
    /\ pc = "gen_setwh"
    /\ LET r == BitmapSetWidthHeight(bmp, ToU16(image_size), ToU16(image_size))
       IN  /\ bmp' = r.bmp
           /\ status' = r.status
           /\ pc' = IF r.status = EXIT_SUCCESS THEN "gen_fill" ELSE "gen_done"
    /\ UNCHANGED <<data, size, orig, adjustVars, data_null, bmp_arg_null,
                   scaled_data, scaled_null, image_size, apiVars,
                   runVars, mainVars>>

\* status = BitmapFillPixelData(*bmp, scaled_data); return status
GenFill ==
    /\ pc = "gen_fill"
    /\ \E alloc_ok \in BOOLEAN :
         LET r == BitmapFillPixelData(bmp, scaled_null, scaled_data, alloc_ok)
         IN  /\ bmp' = r.bmp
             /\ status' = r.status
    /\ pc' = "gen_done"
    /\ UNCHANGED <<data, size, orig, adjustVars, data_null, bmp_arg_null,
                   scaled_data, scaled_null, image_size, apiVars,
                   runVars, mainVars>>

\* the 16-bit input buffers of the preview: one per seed, distinct high and
\* low bytes along the buffer
Pattern(seed, j) == (seed * 20011 + j * 263) % U16

\* sample counts beyond MaxSamples: an 8 x 8 preview and the two demo sizes
LargeSizes == {63, 64, 22500, 45000}

PreviewInputs ==
    {[size |-> n, seed |-> sd, data_null |-> dn, bmp_arg_null |-> bn] :
        n \in 0..MaxSamples, sd \in 0..MaxSeed, dn \in BOOLEAN, bn \in BOOLEAN}
    \cup
    {[size |-> n, seed |-> 1, data_null |-> FALSE, bmp_arg_null |-> FALSE] :
        n \in LargeSizes}

InitPreview ==
    /\ pc = "gen_enter"
    /\ \E in \in PreviewInputs :
         /\ size = in.size
         /\ data_null = in.data_null
         /\ bmp_arg_null = in.bmp_arg_null
         /\ data = IF in.data_null THEN NoBytes
                   ELSE [j \in 0..(in.size - 1) |-> Pattern(in.seed, j)]
    /\ orig = data
    /\ orig_size = size
    /\ status = EXIT_SUCCESS
    /\ bmp = NullBitmap
    /\ scaled_data = NoBytes
    /\ scaled_null = TRUE
    /\ image_size = 0
    /\ pixel_count = 0
    /\ adjustment_level = 0
    /\ i = 0
    /\ max_index = 0
    /\ adjusted_flag = [j \in {} |-> FALSE]
    /\ selected = <<>>
    /\ last_call = NoCall
    /\ calls = 0
    /\ dimensioned = FALSE
    /\ RunIdle
    /\ MainIdle

NextPreview == GenEnter \/ GenInit \/ GenScale \/ GenSetWidthHeight \/ GenFill

SpecPreview == InitPreview /\ [][NextPreview]_vars

----------------------------------------------------------------------------
(* The bitmap API called directly, in any order *)

Widths == 0..MaxWidth \cup {65532, 65535}
Heights == 0..MaxHeight

ApiInit ==
    /\ pc = "api"
    /\ ~bmp.allocated
    /\ calls < MaxCalls
    /\ \E bitmap_ok, table_ok \in BOOLEAN :
         LET r == BitmapInit8BitGrayscale(FALSE, bitmap_ok, table_ok)
         IN  /\ bmp' = r.bmp
             /\ status' = r.status
             /\ pc' = IF r.outcome = "crash" THEN "crash"
                      ELSE IF r.status = EXIT_SUCCESS THEN "api"
                      ELSE "api_init_failed"
    /\ last_call' = [op |-> "init", width |-> 0, height |-> 0, before |-> bmp]
    /\ calls' = calls + 1
    /\ UNCHANGED <<data, size, orig, orig_size, dimensioned, adjustVars,
                   data_null,
                   bmp_arg_null, scaled_data, scaled_null, image_size,
                   runVars, mainVars>>

ApiSetWidthHeight ==
    /\ pc = "api"
    /\ calls < MaxCalls
    /\ \E width \in Widths, height \in Heights :
         LET r == BitmapSetWidthHeight(bmp, width, height)
         IN  /\ bmp' = r.bmp
             /\ status' = r.status
             /\ last_call' = [op |-> "set", width |-> width, height |-> height,
                              before |-> bmp]
             /\ dimensioned' = (dimensioned \/ r.status = EXIT_SUCCESS)
    /\ calls' = calls + 1
    /\ UNCHANGED <<pc, data, size, orig, orig_size, adjustVars, data_null,
                   bmp_arg_null, scaled_data, scaled_null, image_size,
                   runVars, mainVars>>

\* the caller passes NULL or a buffer of image_size bytes (kept in
\* scaled_data)
ApiFillPixelData ==
    /\ pc = "api"
    /\ calls < MaxCalls
    /\ bmp.info_header.image_size <= MaxPixels
    /\ \E seed \in 0..MaxSeed, d_null \in BOOLEAN, alloc_ok \in BOOLEAN :
         LET d == [j \in 0..(bmp.info_header.image_size - 1) |->
                      Downscale8(Pattern(seed, j * 50))]
             r == BitmapFillPixelData(bmp, d_null, d, alloc_ok)
         IN  /\ bmp' = r.bmp
             /\ status' = r.status
             /\ scaled_null' = d_null
             /\ scaled_data' = IF d_null THEN NoBytes ELSE d
    /\ last_call' = [op |-> "fill", width |-> 0, height |-> 0, before |-> bmp]
    /\ calls' = calls + 1
    /\ UNCHANGED <<pc, data, size, orig, orig_size, dimensioned, adjustVars,
                   data_null, bmp_arg_null, image_size, runVars, mainVars>>

\* WriteBmpToFile called on the bitmap as it is; fwrite writes everything or
\* stops half way
ApiWrite ==
    /\ pc = "api"
    /\ calls < MaxCalls
    /\ bmp.info_header.image_size <= MaxPixels
    /\ \E out_null, alloc_ok, survives, short \in BOOLEAN :
         LET n == GET_BITMAP_SIZE(bmp)
             r == WriteBmpToFile(out_null, bmp, alloc_ok, survives,
                                 IF short THEN n \div 2 ELSE n)
         IN  /\ preview_file' = r.file
             /\ status' = r.status
             /\ pc' = IF r.outcome = "crash" THEN "crash" ELSE pc
    /\ last_call' = [op |-> "write", width |-> 0, height |-> 0, before |-> bmp]
    /\ calls' = calls + 1
    /\ UNCHANGED <<data, size, orig, orig_size, dimensioned, adjustVars,
                   previewVars, input_file, raw_data_size, raw_data, opened,
                   closes, out, altered_file, stages, mainVars>>

InitBitmap ==
    /\ pc = "api"
    /\ bmp = NullBitmap
    /\ last_call = NoCall
    /\ calls = 0
    /\ dimensioned = FALSE
    /\ RunIdle
    /\ MainIdle
    /\ status = EXIT_SUCCESS
    /\ data = NoBytes
    /\ orig = NoBytes
    /\ size = 0
    /\ orig_size = 0
    /\ data_null = FALSE
    /\ bmp_arg_null = FALSE
    /\ scaled_data = NoBytes
    /\ scaled_null = TRUE
    /\ image_size = 0
    /\ pixel_count = 0
    /\ adjustment_level = 0
    /\ i = 0
    /\ max_index = 0
    /\ adjusted_flag = [j \in {} |-> FALSE]
    /\ selected = <<>>

NextBitmap == ApiInit \/ ApiSetWidthHeight \/ ApiFillPixelData \/ ApiWrite

SpecBitmap == InitBitmap /\ [][NextBitmap]_vars

----------------------------------------------------------------------------
(* RunAdjustment *)

\* a stage of the run and the status it reported
Stage(name, st) == [stage |-> name, status |-> st]

\* the uint16_t samples a little-endian machine sees in n bytes read
SamplesOf(bytes, n) ==
    [j \in 0..((n \div 2) - 1) |-> bytes[2 * j] + 256 * bytes[2 * j + 1]]

\* the n bytes of the raw_data buffer: the samples d in little-endian order,
\* then the odd last byte as it was read
RawBytes(d, bytes, n) ==
    [p \in 0..(n - 1) |->
        IF (p \div 2) \in DOMAIN d
        THEN IF p % 2 = 0 THEN d[p \div 2] % 256 ELSE d[p \div 2] \div 256
        ELSE bytes[p]]

\* ReadBytesFromFile(in, &raw_data): in_null is in == NULL, len the length
\* ftell reports, alloc_ok and read_ok the outcomes of malloc and fread.
\* After a failed read *data is freed and keeps its value.
ReadBytesFromFile(in_null, len, alloc_ok, read_ok) ==
    IF in_null THEN [size |-> 0, data |-> "null"]
    ELSE IF ~alloc_ok THEN [size |-> len, data |-> "null"]
    ELSE IF ~read_ok /\ len > 0 THEN [size |-> 0, data |-> "freed"]
    ELSE [size |-> len, data |-> "heap"]

\* in = fopen(input_file_path, "rb"); raw_data_size = ReadBytesFromFile(...);
\* if (raw_data_size > 0) ... else status = EXIT_FAILURE
RunRead ==
    /\ pc = "run_enter"
    /\ \E alloc_ok, read_ok \in BOOLEAN :
         LET len == Cardinality(DOMAIN input_file.bytes)
             r == ReadBytesFromFile(~input_file.openable, len, alloc_ok, read_ok)
             d == IF r.data = "heap" THEN SamplesOf(input_file.bytes, len)
                                     ELSE NoBytes
         IN  /\ opened' = [opened EXCEPT !["in"] = input_file.openable]
             /\ raw_data_size' = r.size
             /\ raw_data' = r.data
             /\ data' = d
             /\ orig' = d
             /\ data_null' = (r.data # "heap")
             /\ size' = r.size \div 2
             /\ status' = IF r.size > 0 THEN status ELSE EXIT_FAILURE
             /\ stages' = <<Stage("read", IF r.size > 0 THEN EXIT_SUCCESS
                                                        ELSE EXIT_FAILURE)>>
             /\ pc' = IF r.size > 0 THEN "adjust_enter" ELSE "run_cleanup"
    /\ UNCHANGED <<adjustVars, bmp_arg_null, bmp, scaled_data, scaled_null,
                   image_size, apiVars, input_file, closes, out, altered_file,
                   preview_file, mainVars>>

\* after status = AdjustPixelData(...): out = fopen(ALTERED_FILE_PATH, "wb");
\* status = WriteBytesToFile(out, raw_data, raw_data_size); fclose(out) when
\* that succeeded
RunAfterAdjust ==
    /\ pc = "adjust_done"
    /\ \E open_ok, short \in BOOLEAN :
         LET ran == status = EXIT_SUCCESS
             w == WriteBytesToFile(~open_ok, raw_data # "heap",
                                   RawBytes(data, input_file.bytes, raw_data_size),
                                   raw_data_size,
                                   IF short THEN raw_data_size \div 2
                                            ELSE raw_data_size)
             ok == ran /\ w.status = EXIT_SUCCESS
         IN  /\ status' = IF ran THEN w.status ELSE status
             /\ opened' = IF ran THEN [opened EXCEPT !["altered"] = open_ok]
                                 ELSE opened
             /\ altered_file' = IF ran THEN w.file ELSE altered_file
             /\ out' = IF ran /\ open_ok THEN "altered" ELSE out
             /\ closes' = IF ok THEN [closes EXCEPT !["altered"] = @ + 1]
                                ELSE closes
             /\ stages' = stages \o
                    (IF ran THEN <<Stage("adjust", EXIT_SUCCESS),
                                   Stage("write_altered", w.status)>>
                            ELSE <<Stage("adjust", EXIT_FAILURE)>>)
             /\ pc' = IF ok THEN "gen_enter" ELSE "run_cleanup"
    /\ UNCHANGED <<data, size, orig, adjustVars, previewVars, apiVars,
                   input_file, raw_data_size, raw_data, preview_file, mainVars>>

\* after status = GeneratePreviewBitmapFrom16Bit(...): on success
\* out = fopen(preview_file_path, "wb"); status = WriteBmpToFile(out, bmp);
\* fopen creates the file even when nothing is written to it
RunAfterGenerate ==
    /\ pc = "gen_done"
    /\ \E open_ok, alloc_ok, short \in BOOLEAN :
         LET ran == status = EXIT_SUCCESS
             n == GET_BITMAP_SIZE(bmp)
             w == WriteBmpToFile(~open_ok, bmp, alloc_ok, TRUE,
                                 IF short THEN n \div 2 ELSE n)
         IN  /\ status' = IF ran THEN w.status ELSE status
             /\ opened' = IF ran THEN [opened EXCEPT !["preview"] = open_ok]
                                 ELSE opened
             /\ preview_file' =
                    IF ~ran \/ ~open_ok THEN preview_file
                    ELSE IF w.file.written THEN w.file
                    ELSE [written |-> TRUE, bytes |-> NoBytes]
             /\ out' = IF ~ran THEN out
                       ELSE IF open_ok THEN "preview" ELSE "null"
             /\ stages' = stages \o
                    (IF ran THEN <<Stage("preview", EXIT_SUCCESS),
                                   Stage("write_preview", w.status)>>
                            ELSE <<Stage("preview", EXIT_FAILURE)>>)
             /\ pc' = IF ran /\ w.outcome = "crash" THEN "crash"
                                                    ELSE "run_cleanup"
    /\ UNCHANGED <<data, size, orig, adjustVars, previewVars, apiVars,
                   input_file, raw_data_size, raw_data, closes, altered_file,
                   mainVars>>

\* if (NULL != in) fclose(in); if (NULL != out) fclose(out); free(raw_data);
\* free(output_bmp); return status.  fclose of a stream already closed and
\* free of memory already freed are undefined: the process ends there or
\* goes on.
RunCleanup ==
    /\ pc = "run_cleanup"
    /\ LET closes_in == IF opened["in"] THEN [closes EXCEPT !["in"] = @ + 1]
                                        ELSE closes
           undefined == (out # "null" /\ closes[out] > 0) \/ raw_data = "freed"
       IN  /\ closes' = IF out # "null"
                         THEN [closes_in EXCEPT ![out] = @ + 1] ELSE closes_in
           /\ \E survives \in BOOLEAN :
                pc' = IF undefined /\ ~survives THEN "crash" ELSE "run_done"
    /\ raw_data' = IF raw_data = "heap" THEN "freed" ELSE raw_data
    /\ UNCHANGED <<data, size, status, orig, adjustVars, previewVars, apiVars,
                   input_file, raw_data_size, opened, out, altered_file,
                   preview_file, stages, mainVars>>

\* the input files: byte p of a file is a byte of the sample pattern
FileByte(p) ==
    IF p % 2 = 0 THEN Pattern(1, p \div 2) % 256 ELSE Pattern(1, p \div 2) \div 256

\* lengths in bytes: empty, one byte, one sample, odd, 16 and 17 samples
RunSizes == {0, 1, 2, 3, 32, 34, 35}

RunInputs ==
    {[openable |-> o, bytes |-> [p \in 0..(n - 1) |-> FileByte(p)]] :
        o \in BOOLEAN, n \in RunSizes}

InitRun ==
    /\ pc = "run_enter"
    /\ input_file \in RunInputs
    /\ pixel_count \in 1..MaxRunCount
    /\ adjustment_level \in {50, 100}
    /\ data = NoBytes
    /\ orig = NoBytes
    /\ size = 0
    /\ status = EXIT_SUCCESS
    /\ i = 0
    /\ max_index = 0
    /\ adjusted_flag = [j \in {} |-> FALSE]
    /\ selected = <<>>
    /\ data_null = TRUE
    /\ bmp_arg_null = FALSE
    /\ bmp = NullBitmap
    /\ scaled_data = NoBytes
    /\ scaled_null = TRUE
    /\ image_size = 0
    /\ orig_size = 0
    /\ last_call = NoCall
    /\ calls = 0
    /\ dimensioned = FALSE
    /\ raw_data_size = 0
    /\ raw_data = "null"
    /\ opened = [s \in Streams |-> FALSE]
    /\ closes = [s \in Streams |-> 0]
    /\ out = "null"
    /\ altered_file = NoFile
    /\ preview_file = NoFile
    /\ stages = <<>>
    /\ MainIdle

NextRun ==
    \/ RunRead
    \/ AdjustPixelData
    \/ RunAfterAdjust
    \/ GenEnter \/ GenInit \/ GenScale \/ GenSetWidthHeight \/ GenFill
    \/ RunAfterGenerate
    \/ RunCleanup

SpecRun == InitRun /\ [][NextRun]_vars

----------------------------------------------------------------------------
(* main: the option parser and the call of RunAdjustment *)

\* A C string is the sequence of its characters.
Opt(c) == <<"-", c>>
Program == <<"d", "e", "l", "i", "t", "e">>
\* the one path of the model that exists
RegularPath == <<"r", "a", "w">>
\* the argument strings: the five options, an existing path, a number of two
\* characters (a valid count and level, and no option where an option is
\* read) and a number above 100
Tokens == {Opt("h"), Opt("f"), Opt("p"), Opt("l"), Opt("o"),
           RegularPath, <<"4", "2">>, <<"1", "0", "1">>}

\* argv[argc], and what the slot after it holds when main starts (envp[0])
NULL == <<"NULL">>
EnvSlot == <<"E", "N", "V">>

\* stat() succeeds: the path exists, whatever its kind
FileIsRegular(path) == path = RegularPath

DigitChars == <<"0", "1", "2", "3", "4", "5", "6", "7", "8", "9">>
IsDigit(c, base) == \E d \in 1..base : DigitChars[d] = c
DigitValue(c) == (CHOOSE d \in 1..10 : DigitChars[d] = c) - 1

RECURSIVE StrtolDigits(_, _, _, _)
StrtolDigits(s, k, base, acc) ==
    IF k > Len(s) \/ ~IsDigit(s[k], base)
    THEN acc
    ELSE StrtolDigits(s, k + 1, base, acc * base + DigitValue(s[k]))

\* strtol(s, NULL, 0) on strings without a 0x prefix: an optional sign, then
\* octal digits after a leading 0 and decimal digits otherwise; 0 when no
\* digit follows
Strtol(s) ==
    LET signed == Len(s) > 0 /\ s[1] \in {"-", "+"}
        start == IF signed THEN 2 ELSE 1
        base == IF start <= Len(s) /\ s[start] = "0" THEN 8 ELSE 10
        v == StrtolDigits(s, start, base, 0)
    IN IF signed /\ s[1] = "-" THEN 0 - v ELSE v

\* the conversion of the long to unsigned: a negative value wraps to 2^32 - v,
\* which the model holds as UINT32_MAX_Saturated
ToUnsigned(v) == IF v < 0 THEN UINT32_MAX_Saturated ELSE v

\* the test of the level with its limit one too high
InvalidLevelOffByOne(level) == level > 101

\* adjustment_level > 100
InvalidLevel(level) == level > 100

\* One pass of the loop body on the argument arg, val being the string that
\* follows it (NULL at the end of argv): the values of main's locals after
\* it, whether the pass stepped onto val, and whether it stored NULL into
\* the slot after the last one it read.
ParseArgument(arg, val, st, input, preview, count, level) ==
    LET same == [status |-> st, input_file_path |-> input,
                 preview_file_path |-> preview, pixel_count |-> count,
                 adjustment_level |-> level, stepped |-> FALSE,
                 cut |-> FALSE]
    IN IF Len(arg) # 2
       THEN [same EXCEPT !.status = EXIT_FAILURE]
       ELSE CASE arg[2] = "h" -> [same EXCEPT !.cut = TRUE]
              [] arg[2] = "f" ->
                    IF val # NULL /\ FileIsRegular(val)
                    THEN [same EXCEPT !.input_file_path = val,
                                      !.stepped = TRUE]
                    ELSE [same EXCEPT !.status = EXIT_FAILURE,
                                      !.stepped = TRUE, !.cut = TRUE]
              [] arg[2] = "p" ->
                    LET n == IF val # NULL THEN ToUnsigned(Strtol(val))
                                           ELSE 0
                    IN IF n = 0
                       THEN [same EXCEPT !.pixel_count = n,
                                         !.status = EXIT_FAILURE,
                                         !.stepped = TRUE, !.cut = TRUE]
                       ELSE [same EXCEPT !.pixel_count = n,
                                         !.stepped = TRUE]
              [] arg[2] = "l" ->
                    LET n == IF val # NULL THEN ToUnsigned(Strtol(val))
                                           ELSE UINT32_MAX_Saturated
                    IN IF InvalidLevel(n)
                       THEN [same EXCEPT !.adjustment_level = n,
                                         !.status = EXIT_FAILURE,
                                         !.stepped = TRUE, !.cut = TRUE]
                       ELSE [same EXCEPT !.adjustment_level = n,
                                         !.stepped = TRUE]
              [] arg[2] = "o" ->
                    IF val # NULL
                    THEN [same EXCEPT !.preview_file_path = val,
                                      !.stepped = TRUE]
                    ELSE [same EXCEPT !.status = EXIT_FAILURE,
                                      !.stepped = TRUE, !.cut = TRUE]
              [] OTHER -> [same EXCEPT !.status = EXIT_FAILURE]

\* everything main does not touch
mainFrame == <<data, size, status, orig, i, max_index, adjusted_flag,
               selected, previewVars, apiVars, runVars>>

\* if (argc < 2) { PrintUsage(); status = EXIT_FAILURE; }
\* else arg_iterator = argv + 1
MainEnter ==
    /\ pc = "main_enter"
    /\ IF argc < 2
       THEN /\ main_status' = EXIT_FAILURE
            /\ pc' = "main_done"
            /\ UNCHANGED arg_iterator
       ELSE /\ arg_iterator' = 1
            /\ pc' = "main_loop"
            /\ UNCHANGED main_status
    /\ UNCHANGED <<argc, argv, cmdline, input_file_path, preview_file_path,
                   pixel_count, adjustment_level, invoked, touched,
                   mainFrame>>

\* one pass of the for loop, its arg_iterator++ included.  A store of NULL
\* past argv[argc] is outside the array: it lands in the slot that follows
\* or the program stops.
MainArg ==
    /\ pc = "main_loop"
    /\ argv[arg_iterator] # NULL
    /\ LET r == ParseArgument(argv[arg_iterator], argv[arg_iterator + 1],
                              main_status, input_file_path,
                              preview_file_path, pixel_count,
                              adjustment_level)
           last == IF r.stepped THEN arg_iterator + 1 ELSE arg_iterator
           reads == {arg_iterator, last}
       IN /\ main_status' = r.status
          /\ input_file_path' = r.input_file_path
          /\ preview_file_path' = r.preview_file_path
          /\ pixel_count' = r.pixel_count
          /\ adjustment_level' = r.adjustment_level
          /\ arg_iterator' = last + 1
          /\ IF r.cut
             THEN /\ touched' = touched \cup reads \cup {last + 1}
                  /\ argv' = [argv EXCEPT ![last + 1] = NULL]
                  /\ \E survives \in BOOLEAN :
                        pc' = IF last + 1 > argc /\ ~survives
                              THEN "crash" ELSE "main_loop"
             ELSE /\ touched' = touched \cup reads
                  /\ UNCHANGED <<argv, pc>>
    /\ UNCHANGED <<argc, cmdline, invoked, mainFrame>>

\* the loop has met NULL: the check of the input path, the call of
\* RunAdjustment, whose result becomes the status, and the return
MainReturn ==
    /\ pc = "main_loop"
    /\ argv[arg_iterator] = NULL
    /\ touched' = touched \cup {arg_iterator}
    /\ pc' = "main_done"
    /\ IF main_status = EXIT_SUCCESS /\ Len(input_file_path) = 0
       THEN /\ main_status' = EXIT_FAILURE
            /\ UNCHANGED invoked
       ELSE IF main_status = EXIT_SUCCESS
            THEN /\ invoked' = Append(invoked,
                        [input_file_path |-> input_file_path,
                         preview_file_path |-> preview_file_path,
                         pixel_count |-> pixel_count,
                         adjustment_level |-> adjustment_level])
                 /\ main_status' \in {EXIT_SUCCESS, EXIT_FAILURE}
            ELSE UNCHANGED <<main_status, invoked>>
    /\ UNCHANGED <<argc, argv, cmdline, arg_iterator, input_file_path,
                   preview_file_path, pixel_count, adjustment_level,
                   mainFrame>>

\* argv of a command line: the program name, the arguments, NULL, and the
\* slot after it
ArgvOf(args) ==
    [k \in 0..(Len(args) + 2) |->
        IF k = 0 THEN Program
        ELSE IF k <= Len(args) THEN args[k]
        ELSE IF k = Len(args) + 1 THEN NULL
        ELSE EnvSlot]

CommandLines ==
    UNION {{ArgvOf(args) : args \in [1..n -> Tokens]} : n \in 0..MaxArgs}

InitMain ==
    /\ pc = "main_enter"
    /\ argv \in CommandLines
    /\ cmdline = argv
    /\ argc = Cardinality(DOMAIN argv) - 2
    /\ arg_iterator = 0
    /\ input_file_path = <<>>
    /\ preview_file_path = DefaultPreviewPath
    /\ pixel_count = 50
    /\ adjustment_level = 50
    /\ main_status = EXIT_SUCCESS
    /\ invoked = <<>>
    /\ touched = {}
    /\ data = NoBytes
    /\ orig = NoBytes
    /\ size = 0
    /\ status = EXIT_SUCCESS
    /\ i = 0
    /\ max_index = 0
    /\ adjusted_flag = [j \in {} |-> FALSE]
    /\ selected = <<>>
    /\ data_null = TRUE
    /\ bmp_arg_null = FALSE
    /\ bmp = NullBitmap
    /\ scaled_data = NoBytes
    /\ scaled_null = TRUE
    /\ image_size = 0
    /\ orig_size = 0
    /\ last_call = NoCall
    /\ calls = 0
    /\ dimensioned = FALSE
    /\ RunIdle

NextMain == MainEnter \/ MainArg \/ MainReturn

SpecMain == InitMain /\ [][NextMain]_vars

----------------------------------------------------------------------------
(* Properties of AdjustPixelData *)

AdjustFinished == pc = "adjust_done" /\ status = EXIT_SUCCESS

SelectedSet == {selected[n] : n \in 1..Len(selected)}

\* position of idx in a full sort of buf by value descending, ties toward
\* the lower index
Rank(buf, n, idx) ==
    Cardinality({j \in 0..(n - 1) :
                    buf[j] > buf[idx] \/ (buf[j] = buf[idx] /\ j < idx)})

TopK(buf, n, k) == {idx \in 0..(n - 1) : Rank(buf, n, idx) < k}

\* C1: for 0 <= K <= N the set of indices AdjustPixelData scales is exactly
\* the first K indices of the original buffer ordered by value descending,
\* ties toward the lower index, and no other index is written.
C1_ScaledSetIsTopK ==
    (AdjustFinished /\ pixel_count <= size) =>
        /\ SelectedSet = TopK(orig, size, pixel_count)
        /\ \A j \in 0..(size - 1) :
              j \notin TopK(orig, size, pixel_count) => data[j] = orig[j]

\* C2: within one run no index is scaled more than once, whatever N, K and
\* the buffer contents are.
C2_NoIndexScaledTwice ==
    \A a, b \in 1..Len(selected) : a # b => selected[a] # selected[b]

\* C3: with K > N the run adjusts at most N distinct positions, each once,
\* only in-range indices, returns success, and leaves the buffer that K = N
\* produces.
C3_ExcessCountClampsToSize ==
    (pc = "adjust_done" /\ size > 0 /\ adjusted_flag # [j \in {} |-> FALSE]
        /\ pixel_count > size) =>
        /\ status = EXIT_SUCCESS
        /\ SelectedSet \subseteq 0..(size - 1)
        /\ C2_NoIndexScaledTwice
        /\ data = AdjustLoop(orig, [j \in 0..(size - 1) |-> FALSE], size, size,
                             adjustment_level, 0, 0).data

\* C4: with pixel_count = 0, and also with adjustment_level = 0, the buffer
\* stays identical to its input (same length, same value at every index).
C4_ZeroCountOrLevelKeepsBuffer ==
    (pixel_count = 0 \/ adjustment_level = 0) =>
        (DOMAIN data = 0..(size - 1) /\ data = orig)

C4_Witness ==
    /\ AdjustFinished /\ adjustment_level = 0 /\ pixel_count >= 2
    /\ Len(selected) = pixel_count
    /\ orig[selected[1]] > 0

\* C5: with adjustment_level = 100 and 1 <= K <= N, after the call returns
\* every position it selected holds 0, K positions were selected, and each
\* of the K highest-valued samples of the input is 0.
C5_FullLevelBlackensSelected ==
    (AdjustFinished /\ adjustment_level = 100
        /\ 1 <= pixel_count /\ pixel_count <= size) =>
        /\ Len(selected) = pixel_count
        /\ \A idx \in SelectedSet : data[idx] = 0
        /\ \A idx \in 0..(size - 1) :
            data[idx] = 0 \/ Rank(orig, size, idx) >= pixel_count

\* C19: in every iteration whose scan finds a maximum (some sample not yet
\* scaled is above 0) the index scaled is the index the scan found, for
\* buffers longer than 65536 samples too: it is in range, not scaled before,
\* and no index not yet scaled holds a greater sample or an equal one at a
\* lower index (no index taken modulo 2^16).  In a later iteration whose
\* scan finds nothing, the index scaled is not one left over from an
\* earlier iteration.
C19_ScaledIndexIsScanResult ==
    AdjustFinished =>
        \A k \in 1..Len(selected) :
            LET j == selected[k]
                earlier == {selected[m] : m \in 1..(k - 1)}
                found == \E idx \in 0..(size - 1) :
                            orig[idx] > 0 /\ idx \notin earlier
            IN  /\ j \in 0..(size - 1)
                /\ j \notin earlier
                /\ found =>
                      \A idx \in 0..(size - 1) :
                          idx \notin earlier =>
                              /\ orig[idx] <= orig[j]
                              /\ idx < j => orig[idx] < orig[j]

\* C6: for every level in 0..100, every K and every buffer, each sample is at
\* most its original value and within 0..65535 after (and during) the run.
C6_SamplesNeverIncrease ==
    \A j \in 0..(size - 1) : data[j] \in 0..65535 /\ data[j] <= orig[j]

C6_Witness ==
    /\ AdjustFinished /\ pixel_count > size
    /\ adjustment_level \notin {0, 100}
    /\ \E j \in 0..(size - 1) : data[j] < orig[j] /\ data[j] > 0

----------------------------------------------------------------------------
(* Properties of GeneratePreviewBitmapFrom16Bit and the bitmap API *)

PreviewSucceeded == pc = "gen_done" /\ status = EXIT_SUCCESS

\* the dimensioning and the downscale loop have run
DimensionsComputed ==
    \/ pc \in {"gen_setwh", "gen_fill"}
    \/ pc = "gen_done" /\ bmp.pixel_ptr \in {"heap", "null"}

\* C7: the downscale step stores floor(data[i] / 256) at the same index i for
\* every i < side_length^2, writes nothing for the samples beyond, and the
\* bitmap's pixel data after BitmapFillPixelData is exactly these bytes in
\* the same order.
C7_DownscaleKeepsHighByteInOrder ==
    LET n == image_size * image_size
    IN  /\ DimensionsComputed =>
              /\ \A j \in 0..(n - 1) : scaled_data[j] = orig[j] \div 256
              /\ \A j \in DOMAIN scaled_data : j >= n => scaled_data[j] = -1
        /\ PreviewSucceeded =>
              /\ DOMAIN bmp.pixel_data = 0..(n - 1)
              /\ \A j \in 0..(n - 1) : bmp.pixel_data[j] = orig[j] \div 256

C7_Witness ==
    /\ PreviewSucceeded /\ orig_size = 17 /\ image_size = 4
    /\ bmp.pixel_data[0] = 78 /\ bmp.pixel_data[15] = 93
    /\ scaled_data[16] = -1

\* C8: the side length is the largest multiple of 4 not exceeding
\* floor(sqrt(N)); the preview is side x side with side^2 pixel bytes;
\* N = 45000 gives 212 and N = 22500 gives 148.
C8_SideIsLargestMultipleOf4UnderRoot ==
    /\ DimensionsComputed =>
          /\ image_size % 4 = 0
          /\ image_size * image_size <= orig_size
          /\ (image_size + 4) * (image_size + 4) > orig_size
          /\ orig_size = 45000 => image_size = 212
          /\ orig_size = 22500 => image_size = 148
    /\ PreviewSucceeded =>
          /\ bmp.info_header.width = image_size
          /\ bmp.info_header.height = image_size
          /\ bmp.info_header.image_size = image_size * image_size
          /\ DOMAIN bmp.pixel_data = 0..(image_size * image_size - 1)

C8_Witness ==
    /\ PreviewSucceeded /\ orig_size = 63
    /\ bmp.info_header.width = 4 /\ bmp.info_header.height = 4
    /\ DOMAIN bmp.pixel_data = 0..15

\* C9: the preview step fails whenever N is 0 or the side length computes to
\* 0 (fewer than 16 samples); it never returns success with a 0 x 0 preview.
C9_FewerThan16SamplesFail ==
    (pc = "gen_done" /\ ~data_null /\ ~bmp_arg_null /\ orig_size < 16) =>
        status = EXIT_FAILURE

\* C10: BitmapSetWidthHeight returns EXIT_FAILURE for a NULL bitmap and for
\* every width that is not a multiple of 4, leaving the bitmap (width, height,
\* image_size, file_size) unchanged; for a multiple of 4 it returns
\* EXIT_SUCCESS and stores the given width and height.
C10_SetWidthHeightValidatesWidth ==
    last_call.op = "set" =>
        IF ~last_call.before.allocated \/ last_call.width % 4 # 0
        THEN /\ status = EXIT_FAILURE
             /\ bmp.info_header = last_call.before.info_header
             /\ bmp.header = last_call.before.header
             /\ bmp = last_call.before
        ELSE /\ status = EXIT_SUCCESS
             /\ bmp.info_header.width = last_call.width
             /\ bmp.info_header.height = last_call.height

C10_Witness ==
    /\ last_call.op = "set" /\ last_call.width = 6 /\ last_call.height = 2
    /\ status = EXIT_FAILURE
    /\ bmp.info_header.width = 8 /\ bmp.info_header.height = 1
    /\ bmp.header.file_size = 1086

\* the precondition check of GeneratePreviewBitmapFrom16Bit has run and
\* found data NULL, the scratch buffer NULL, size 0 or bmp NULL
PreconditionFailed ==
    /\ pc \in {"gen_init", "gen_scale", "gen_setwh", "gen_fill", "gen_done",
               "crash"}
    /\ (data_null \/ scaled_null \/ orig_size = 0 \/ bmp_arg_null)

\* C18: when data is NULL, size is 0, bmp is NULL or the scratch allocation
\* fails, GeneratePreviewBitmapFrom16Bit does not initialise, dimension or
\* fill a bitmap (and so does not end the process either) and the status it
\* returns is EXIT_FAILURE.
C18_PreconditionFailureReturned ==
    PreconditionFailed =>
        /\ pc \in {"gen_init", "gen_done"}
        /\ ~bmp.allocated
        /\ pc = "gen_done" => status = EXIT_FAILURE

\* the call of BitmapInit8BitGrayscale is the next step
InitCalled == pc = "gen_init"

\* what C21 asks of one call: it returns; with a NULL argument, a missing
\* struct or a missing color table the status is EXIT_FAILURE; with
\* EXIT_SUCCESS the struct is there with its 256 colors
InitReturnsStatus ==
    InitCalled =>
        /\ pc' # "crash"
        /\ bmp_arg_null => (status' = EXIT_FAILURE /\ ~bmp'.allocated)
        /\ (~bmp'.allocated \/ bmp'.color_table = NoColors) =>
              status' = EXIT_FAILURE
        /\ status' = EXIT_SUCCESS =>
              (/\ bmp'.allocated
               /\ DOMAIN bmp'.color_table = 0..(GrayLevels - 1))

\* C21: BitmapInit8BitGrayscale returns EXIT_FAILURE, without dereferencing
\* a null pointer, when its argument is NULL, when the allocation of the
\* struct Bitmap fails and when the allocation of the color table fails; when
\* it returns EXIT_SUCCESS *bitmap is not NULL and has a color table of 256
\* entries.
C21_InitFailsWithoutNullDereference == [][InitReturnsStatus]_vars

----------------------------------------------------------------------------
(* Properties of the bitmap structure and of its serialization *)

\* C11: once BitmapInit8BitGrayscale has succeeded and a BitmapSetWidthHeight
\* call has succeeded, whatever calls follow (successful or failing, the
\* serialization included): width % 4 = 0, image_size = width * height,
\* file_size = pixel_data_offset + image_size, pixel_data_offset =
\* 14 + 40 + colors_used * 4 = 1078, colors_used = 2^bit_depth = 256 and
\* GET_BITMAP_SIZE = file_size.
C11_HeaderInvariants ==
    (bmp.allocated /\ dimensioned) =>
        /\ bmp.info_header.width % 4 = 0
        /\ bmp.info_header.image_size
              = bmp.info_header.width * bmp.info_header.height
        /\ bmp.header.file_size
              = bmp.header.pixel_data_offset + bmp.info_header.image_size
        /\ bmp.header.pixel_data_offset
              = 14 + 40 + bmp.info_header.colors_used * 4
        /\ bmp.header.pixel_data_offset = 1078
        /\ bmp.info_header.colors_used = 2^bmp.info_header.bit_depth
        /\ bmp.info_header.colors_used = 256
        /\ GET_BITMAP_SIZE(bmp) = bmp.header.file_size

C11_Witness ==
    /\ last_call.op = "write" /\ status = EXIT_SUCCESS
    /\ dimensioned /\ calls = 4
    /\ bmp.info_header.width = 8 /\ bmp.info_header.height = 2
    /\ bmp.pixel_ptr = "heap"
    /\ DOMAIN preview_file.bytes = 0..(bmp.header.file_size - 1)

\* BitmapInit8BitGrayscale returned EXIT_SUCCESS for this bitmap
InitSucceeded == bmp.allocated /\ pc # "api_init_failed"

\* C12: after a successful BitmapInit8BitGrayscale, and after every later
\* BitmapSetWidthHeight, BitmapFillPixelData and WriteBmpToFile call, the
\* signature is 0x4D42 (the bytes 'B', 'M' in the file), reserved = 0,
\* header_size = 40, planes = 1, bit_depth = 8, compression = 0, both
\* resolutions = 0, colors_used = 256, important_colors = 0, and the color
\* table has the 256 entries red = green = blue = i, reserved = 0.
C12_FixedFieldsAndRamp ==
    /\ InitSucceeded =>
          /\ bmp.header.signature = 19778
          /\ bmp.header.reserved = 0
          /\ bmp.info_header.header_size = 40
          /\ bmp.info_header.planes_count = 1
          /\ bmp.info_header.bit_depth = 8
          /\ bmp.info_header.compression = 0
          /\ bmp.info_header.x_resolution = 0
          /\ bmp.info_header.y_resolution = 0
          /\ bmp.info_header.colors_used = 256
          /\ bmp.info_header.important_colors = 0
          /\ DOMAIN bmp.color_table = 0..255
          /\ \A c \in 0..255 :
                bmp.color_table[c]
                    = [red |-> c, green |-> c, blue |-> c, reserved |-> 0]
    /\ (preview_file.written /\ 1 \in DOMAIN preview_file.bytes) =>
          /\ preview_file.bytes[0] = 66
          /\ preview_file.bytes[1] = 77

C12_Witness ==
    /\ InitSucceeded /\ dimensioned
    /\ preview_file.written /\ 1 \in DOMAIN preview_file.bytes
    /\ last_call.op = "fill" /\ status = EXIT_SUCCESS
    /\ bmp.info_header.image_size > 0

\* the little-endian number held by len bytes of a file from offset off
RECURSIVE DecodeLE(_, _, _)
DecodeLE(bytes, off, len) ==
    IF len = 0 THEN 0
    ELSE bytes[off] + 256 * DecodeLE(bytes, off + 1, len - 1)

\* the bitmap was initialised, dimensioned and filled from a buffer of
\* width * height bytes, and the last call wrote it out successfully
WrittenFromBuffer ==
    /\ last_call.op = "write" /\ status = EXIT_SUCCESS
    /\ InitSucceeded /\ dimensioned
    /\ bmp.pixel_ptr = "heap" /\ ~scaled_null
    /\ DOMAIN scaled_data = 0..(bmp.info_header.image_size - 1)
    /\ DOMAIN bmp.pixel_data = DOMAIN scaled_data

\* C13: the bytes WriteBmpToFile emits for a bitmap built from a buffer of
\* w * h bytes are 1078 + w * h long, every byte is written (no gap), and
\* decoding at the fixed offsets 0, 14, 54 and 1078 (little-endian fields)
\* gives back the signature, the sizes, w, h, bit depth 8, the ramp color
\* table and the w * h bytes of the buffer.
C13_LayoutRoundTrip ==
    WrittenFromBuffer =>
        LET f == preview_file.bytes
            w == bmp.info_header.width
            h == bmp.info_header.height
        IN  /\ preview_file.written
            /\ DOMAIN f = 0..(1078 + w * h - 1)
            /\ \A p \in DOMAIN f : f[p] \in 0..255
            /\ DecodeLE(f, 0, 2) = 19778
            /\ DecodeLE(f, 2, 4) = 1078 + w * h
            /\ DecodeLE(f, 10, 4) = 1078
            /\ DecodeLE(f, 14, 4) = 40
            /\ DecodeLE(f, 18, 4) = w
            /\ DecodeLE(f, 22, 4) = h
            /\ DecodeLE(f, 28, 2) = 8
            /\ DecodeLE(f, 34, 4) = w * h
            /\ DecodeLE(f, 46, 4) = 256
            /\ \A c \in 0..255 :
                  /\ f[54 + 4 * c] = c
                  /\ f[54 + 4 * c + 1] = c
                  /\ f[54 + 4 * c + 2] = c
                  /\ f[54 + 4 * c + 3] = 0
            /\ \A j \in 0..(w * h - 1) : f[1078 + j] = scaled_data[j]

C13_Witness ==
    /\ WrittenFromBuffer
    /\ bmp.info_header.width = 8 /\ bmp.info_header.height = 2
    /\ \E j, k \in DOMAIN scaled_data : scaled_data[j] # scaled_data[k]

\* C14: in the bytes written for a w x h bitmap built from a buffer, row r of
\* the buffer counted from its top (bytes r * w .. r * w + w - 1) lies at file
\* row h - 1 - r, that is at offsets 1078 + (h - 1 - r) * w onwards, and the
\* rows follow each other without padding.
C14_RowsBottomToTop ==
    WrittenFromBuffer =>
        LET f == preview_file.bytes
            w == bmp.info_header.width
            h == bmp.info_header.height
        IN  /\ DOMAIN f = 0..(1078 + w * h - 1)
            /\ \A r \in 0..(h - 1) : \A c \in 0..(w - 1) :
                  f[1078 + (h - 1 - r) * w + c] = scaled_data[r * w + c]

----------------------------------------------------------------------------
(* Properties of RunAdjustment *)

RunReturned == pc = "run_done"

\* the run is over: it returned or the process ended inside it
RunEnded == pc \in {"run_done", "crash"}

StageOrder == <<"read", "adjust", "write_altered", "preview", "write_preview">>

SomeStageFailed == \E k \in 1..Len(stages) : stages[k].status = EXIT_FAILURE

\* both output files hold all their bytes
BothComplete ==
    /\ altered_file.written
    /\ DOMAIN altered_file.bytes = 0..(raw_data_size - 1)
    /\ preview_file.written
    /\ DOMAIN preview_file.bytes = 0..(GET_BITMAP_SIZE(bmp) - 1)

\* C15: when RunAdjustment returns, either it returns success and both the
\* adjusted output and the preview are completely written, or it returns
\* failure and neither output file has been written.
C15_NoHalfWrittenPair ==
    RunReturned =>
        \/ status = EXIT_SUCCESS /\ BothComplete
        \/ /\ status = EXIT_FAILURE
           /\ ~altered_file.written
           /\ ~preview_file.written

\* C16: the stages run in the order read, adjust, write adjusted data,
\* generate preview, write preview; no stage runs after one that reported
\* failure; and the run ends by returning, with EXIT_FAILURE exactly when
\* some stage failed and EXIT_SUCCESS exactly when all five succeeded.
C16_StagesShortCircuit ==
    /\ Len(stages) <= 5
    /\ \A k \in 1..Len(stages) : stages[k].stage = StageOrder[k]
    /\ \A k \in 1..(Len(stages) - 1) : stages[k].status = EXIT_SUCCESS
    /\ RunEnded =>
          /\ RunReturned
          /\ status = EXIT_FAILURE <=> SomeStageFailed
          /\ status = EXIT_SUCCESS <=> (Len(stages) = 5 /\ ~SomeStageFailed)

\* C20: no stream is ever closed twice or closed without having been
\* opened, and when RunAdjustment returns every stream that was opened has
\* been closed exactly once.
C20_StreamsClosedOnce ==
    /\ \A s \in Streams : closes[s] <= 1 /\ (closes[s] = 1 => opened[s])
    /\ RunReturned => \A s \in Streams : opened[s] => closes[s] = 1

----------------------------------------------------------------------------
(* Properties of main *)

\* the option -c stands among the arguments main received
Given(c) ==
    \E k \in 1..(argc - 1) : Len(cmdline[k]) = 2 /\ cmdline[k][2] = c

\* the call of RunAdjustment was made with valid values, the defaults
\* standing where no -p and no -l was given
InvokedWithValidOptions ==
    /\ Len(invoked) <= 1
    /\ invoked # <<>> =>
          LET call == invoked[1]
          IN /\ FileIsRegular(call.input_file_path)
             /\ \E k \in 2..(argc - 1) :
                   /\ cmdline[k] = call.input_file_path
                   /\ Len(cmdline[k - 1]) = 2 /\ cmdline[k - 1][2] = "f"
             /\ call.pixel_count >= 1
             /\ call.adjustment_level <= 100
             /\ ~Given("p") => call.pixel_count = 50
             /\ ~Given("l") => call.adjustment_level = 50
    /\ (pc = "main_done" /\ invoked = <<>>) => main_status = EXIT_FAILURE

\* a status of EXIT_FAILURE stays, and no call of RunAdjustment follows it
FailureIsFinal ==
    main_status = EXIT_FAILURE =>
        (main_status' = EXIT_FAILURE /\ invoked' = invoked)

\* C17: for every argument list main calls RunAdjustment only with an input
\* path that was supplied, pixel_count >= 1 and adjustment_level <= 100,
\* both being 50 when -p / -l are absent; once the status is EXIT_FAILURE
\* no later argument resets it, RunAdjustment is not called, and main
\* returns EXIT_FAILURE.
C17_OnlyValidOptionsRun ==
    [](InvokedWithValidOptions) /\ [][FailureIsFinal]_vars

\* main has called RunAdjustment for  -f raw -p 42 : the count parsed, the
\* level left at its default
C17_Witness ==
    /\ pc = "main_done"
    /\ argc = 5
    /\ Given("p") /\ ~Given("l")
    /\ invoked = <<[input_file_path |-> RegularPath,
                    preview_file_path |-> DefaultPreviewPath,
                    pixel_count |-> 42, adjustment_level |-> 50]>>

\* C22: for every argument list the option parser reads and writes only the
\* argv slots 0..argc and arg_iterator never passes argv[argc]; in
\* particular, with -f, -p, -l or -o as the last argument it neither writes
\* to nor steps onto argv[argc + 1].
C22_ParserStaysInsideArgv ==
    /\ touched \subseteq 0..argc
    /\ arg_iterator <= argc

====
